---- MODULE Spec2Model ----
(***************************************************************************)
(* HiitHero timer state machine (createTimer) driven by the browser's      *)
(* requestAnimationFrame queue and a wall clock.                           *)
(*                                                                         *)
(* The closure of createTimer is the record                                *)
(*   [state, rafId, lastTimestamp, lastDisplayedSecond]                    *)
(* extended with the browser's queue of scheduled frame callbacks          *)
(* (pending) and the callbacks emitted by the call under way (out).        *)
(* Every function of the closure is an operator from such a record to the  *)
(* record after the call; the actions apply them to the variables.         *)
(***************************************************************************)
EXTENDS Integers, Sequences, FiniteSets, TLC

\* ---------------------------------------------------------------- bounds
MaxRounds == 2        \* rounds range over MinRounds..MaxRounds
MaxClock == 6000      \* the wall clock stops advancing here (ms)
TickCap == 8          \* the ticks of one phase are counted up to here
MaxLocks == 2         \* wake locks requested, held or being released at a time

\* ------------------------------------------------------ program constants
MinDuration == 5      \* getSettings: sanitizeNumericInput(.., 5, 300, ..)
MinRounds == 1        \* getSettings: sanitizeNumericInput(.., 1, 50, 8)
CountdownMs == 3000   \* start: 3-second countdown
MaxDelta == 1000      \* tick: cap on one tick's delta
MsPerSecond == 1000   \* config durations are seconds, the state is in ms
NullTime == -1        \* lastTimestamp = null
NullSecond == -1      \* lastDisplayedSecond = null
NullSentinel == 0      \* var sentinel = null
NullRaf == 0          \* rafId = null (falsy, like null, in `if (rafId)`)

NullStatus == "null"  \* state.previousStatus = null

\* The durations (seconds) configurations are drawn from: the shortest the
\* settings form lets through, and a work duration that differs from the
\* rest duration.
WorkDurations == {MinDuration, MinDuration + 1}
RestDurations == {MinDuration}

\* Wall-clock amounts that pass between two events: less than a second and
\* more than the cap of one tick.
ElapseSteps == {500, 1500}

STATES == {"IDLE", "COUNTDOWN", "WORK", "REST", "PAUSED", "COMPLETE"}
ActiveStates == {"COUNTDOWN", "WORK", "REST"}

VARIABLES
  config,               \* createTimer's config argument
  state,                \* var state = {...}
  rafId,                \* var rafId
  lastTimestamp,        \* var lastTimestamp
  lastDisplayedSecond,  \* var lastDisplayedSecond
  pending,              \* handles of the frame callbacks the browser holds
  now,                  \* the wall clock (ms)
  lastOp,               \* the last call made: an operation or "tick"
  accepted,             \* whether that call passed its guard
  emitted,              \* the callbacks that call fired, in order
  lastTick,             \* what the last call, if a tick, computed
  leftPaused,           \* when and how PAUSED was last left, until the next tick
  beforePause,          \* the state and clock at the last pause, until the
                        \* first tick after the resume
  phasesEntered,        \* phases entered since start(), with their times
  runCalls,             \* phase, round and completion callbacks since start()
  stale,                \* pending handles that outlived a pause, reset or skip
  before,               \* the status, phase and round the last call found,
                        \* and the accepted call right before an accepted
                        \* start or skip
  counterpart,          \* the closure the last call is compared with
  app,                  \* the page: the controller's timer and isPaused, the
                        \* screen shown, WakeLockManager's variables and
                        \* the wake locks and promises of the browser
  ticksInPhase,         \* the frame ticks run in the current phase, where
                        \* FrameTick counts them
  sounded               \* the whole seconds remaining at each 'countdown'
                        \* sound of the current phase, in order

timerVars ==
  <<config, state, rafId, lastTimestamp, lastDisplayedSecond, pending,
    now, lastOp, accepted, emitted, lastTick, leftPaused, beforePause,
    phasesEntered, runCalls, stale, before, counterpart, ticksInPhase,
    sounded>>

vars == <<timerVars, app>>

Configs ==
  [workDuration : WorkDurations,
   restDuration : RestDurations,
   rounds : MinRounds..MaxRounds]

\* The state object right after construction.
InitialState(cfg) ==
  [status |-> "IDLE",
   previousStatus |-> NullStatus,
   currentRound |-> 1,
   totalRounds |-> cfg.rounds,
   timeRemaining |-> 0,
   phaseDuration |-> 0]

\* The closure as a record, before a call: nothing emitted yet.
Machine ==
  [config |-> config,
   state |-> state,
   rafId |-> rafId,
   lastTimestamp |-> lastTimestamp,
   lastDisplayedSecond |-> lastDisplayedSecond,
   pending |-> pending,
   out |-> <<>>,
   ok |-> FALSE,
   entered |-> FALSE,
   cancelled |-> {}]

\* The closure of a timer just constructed.
FreshMachine(cfg) ==
  [config |-> cfg,
   state |-> InitialState(cfg),
   rafId |-> NullRaf,
   lastTimestamp |-> NullTime,
   lastDisplayedSecond |-> NullSecond,
   pending |-> {},
   out |-> <<>>,
   ok |-> FALSE,
   entered |-> FALSE,
   cancelled |-> {}]

\* callbacks.<cb>(arg...)
Emit(m, cb, arg) == [m EXCEPT !.out = Append(@, [cb |-> cb, arg |-> arg])]

emitTick(m) ==
  Emit(m, "onTick",
       <<m.state.timeRemaining, m.state.phaseDuration, m.state.status,
         m.state.currentRound, m.state.totalRounds>>)

\* The handle requestAnimationFrame returns: one the browser has not handed
\* out to a callback still pending nor to the one rafId remembers.
FreshHandle(m) ==
  CHOOSE h \in 1..(Cardinality(m.pending) + 2) :
    /\ h \notin m.pending
    /\ h # m.rafId
    /\ \A g \in 1..(h - 1) : g \in m.pending \/ g = m.rafId

\* rafId = requestAnimationFrame(tick)
requestFrame(m) ==
  LET h == FreshHandle(m)
  IN [m EXCEPT !.pending = @ \cup {h}, !.rafId = h]

\* Mutant of cancelFrame: rafId is forgotten, the callback is not cancelled.
cancelFrameKeepsCallback(m) ==
  IF m.rafId # NullRaf THEN [m EXCEPT !.rafId = NullRaf] ELSE m

\* if (rafId) { cancelAnimationFrame(rafId); rafId = null; }
cancelFrame(m) ==
  IF m.rafId # NullRaf
    THEN [m EXCEPT !.pending = @ \ {m.rafId}, !.rafId = NullRaf,
                   !.cancelled = @ \cup {m.rafId}]
    ELSE m

\* Math.ceil(ms / 1000) for an integer ms >= 0
CeilSeconds(ms) == (ms + MsPerSecond - 1) \div MsPerSecond

\* A phase is entered: status, timeRemaining and phaseDuration are assigned.
EnterPhase(m, status, duration) ==
  [m EXCEPT !.state.status = status,
            !.state.timeRemaining = duration,
            !.state.phaseDuration = duration,
            !.entered = TRUE]

\* Mutant of completeRun: the next frame is requested all the same.
completeRunKeepsTicking(m) ==
  LET m1 == [m EXCEPT !.state.status = "COMPLETE"]
      m2 == Emit(m1, "onComplete",
                 <<m1.state.totalRounds, m1.config.workDuration,
                   m1.config.restDuration>>)
      m3 == Emit(m2, "onSound", <<"complete">>)
  IN requestFrame(Emit(m3, "onStateChange", <<"COMPLETE">>))

\* handlePhaseEnd, lines 90-98: all rounds done
completeRun(m) ==
  LET m1 == [m EXCEPT !.state.status = "COMPLETE"]
      m2 == Emit(m1, "onComplete",
                 <<m1.state.totalRounds, m1.config.workDuration,
                   m1.config.restDuration>>)
      m3 == Emit(m2, "onSound", <<"complete">>)
  IN Emit(m3, "onStateChange", <<"COMPLETE">>)

\* Mutant of allRoundsDone: one round too many.
allRoundsDoneOffByOne(m) == m.state.currentRound > m.state.totalRounds

\* handlePhaseEnd, line 89: all rounds done
allRoundsDone(m) == m.state.currentRound >= m.state.totalRounds

handlePhaseEnd(m) ==
  IF m.state.status = "COUNTDOWN" THEN
    LET m1 == EnterPhase(m, "WORK", m.config.workDuration * MsPerSecond)
        m2 == [m1 EXCEPT !.lastDisplayedSecond = NullSecond]
        m3 == Emit(m2, "onPhaseChange", <<"WORK">>)
        m4 == Emit(m3, "onSound", <<"start">>)
    IN requestFrame(m4)
  ELSE IF m.state.status = "WORK" THEN
    IF allRoundsDone(m) THEN completeRun(m)
    ELSE
      LET m1 == EnterPhase(m, "REST", m.config.restDuration * MsPerSecond)
          m2 == [m1 EXCEPT !.lastDisplayedSecond = NullSecond]
          m3 == Emit(m2, "onPhaseChange", <<"REST">>)
          m4 == Emit(m3, "onSound", <<"workToRest">>)
      IN requestFrame(m4)
  ELSE IF m.state.status = "REST" THEN
    LET m0 == [m EXCEPT !.state.currentRound = @ + 1]
        m1 == EnterPhase(m0, "WORK", m.config.workDuration * MsPerSecond)
        m2 == [m1 EXCEPT !.lastDisplayedSecond = NullSecond]
        m3 == Emit(m2, "onPhaseChange", <<"WORK">>)
        m4 == Emit(m3, "onRoundChange",
                   <<m3.state.currentRound, m3.state.totalRounds>>)
        m5 == Emit(m4, "onSound", <<"restToWork">>)
    IN requestFrame(m5)
  ELSE m

\* tick, lines 43-45: the instant the delta is measured from
TickReference(m, timestamp) ==
  IF m.lastTimestamp = NullTime THEN timestamp ELSE m.lastTimestamp

\* Mutant of TickDelta: the delta is not capped.
TickDeltaUncapped(m, timestamp) ==
  timestamp - TickReference(m, timestamp)

\* tick, lines 47-53: the delta, capped
TickDelta(m, timestamp) ==
  LET delta == timestamp - TickReference(m, timestamp)
  IN IF delta > MaxDelta THEN MaxDelta ELSE delta

\* Mutant of Expires: a phase ends only below 0.
ExpiresBelowZero(m, timestamp) ==
  m.state.timeRemaining - TickDelta(m, timestamp) < 0

\* tick, line 57: this tick ends the phase
Expires(m, timestamp) ==
  m.state.timeRemaining - TickDelta(m, timestamp) <= 0

\* Mutant of expire: the final tick notification is left out.
expireWithoutFinalTick(m) ==
  handlePhaseEnd([m EXCEPT !.state.timeRemaining = 0])

\* tick, lines 57-61: the phase has run out
expire(m) ==
  handlePhaseEnd(emitTick([m EXCEPT !.state.timeRemaining = 0]))

\* tick, lines 64-71: the countdown sound at 3, 2, 1 seconds remaining
countdownSound(m) ==
  LET currentSecond == CeilSeconds(m.state.timeRemaining)
  IN IF currentSecond # m.lastDisplayedSecond THEN
       LET m1 == [m EXCEPT !.lastDisplayedSecond = currentSecond]
       IN IF currentSecond <= 3 /\ currentSecond >= 1
             /\ m1.state.status # "COUNTDOWN"
            THEN Emit(m1, "onSound", <<"countdown">>)
            ELSE m1
     ELSE m

\* Mutant of tick: the next frame is not requested.
tickOnce(m, timestamp) ==
  LET delta == TickDelta(m, timestamp)
      m1 == [m EXCEPT !.lastTimestamp = timestamp,
                      !.state.timeRemaining = @ - delta,
                      !.ok = TRUE]
  IN IF Expires(m, timestamp)
       THEN expire(m1)
       ELSE emitTick(countdownSound(m1))

\* tick(timestamp), run by the browser for a callback it has taken off its
\* queue
tick(m, timestamp) ==
  LET delta == TickDelta(m, timestamp)
      m1 == [m EXCEPT !.lastTimestamp = timestamp,
                      !.state.timeRemaining = @ - delta,
                      !.ok = TRUE]
  IN IF Expires(m, timestamp)
       THEN expire(m1)
       ELSE requestFrame(emitTick(countdownSound(m1)))

\* Mutant of start: the round is not reported.
startWithoutRoundChange(m) ==
  IF m.state.status # "IDLE" THEN m
  ELSE
    LET m0 == [m EXCEPT !.state.currentRound = 1,
                        !.state.totalRounds = m.config.rounds,
                        !.ok = TRUE]
        m1 == EnterPhase(m0, "COUNTDOWN", CountdownMs)
        m2 == [m1 EXCEPT !.lastTimestamp = NullTime,
                         !.lastDisplayedSecond = NullSecond]
        m3 == Emit(m2, "onPhaseChange", <<"COUNTDOWN">>)
        m5 == Emit(m3, "onStateChange", <<"COUNTDOWN">>)
    IN requestFrame(m5)

\* Mutant of start: the status is not checked.
startFromAnyStatus(m) ==
  LET m0 == [m EXCEPT !.state.currentRound = 1,
                      !.state.totalRounds = m.config.rounds,
                      !.ok = TRUE]
      m1 == EnterPhase(m0, "COUNTDOWN", CountdownMs)
      m2 == [m1 EXCEPT !.lastTimestamp = NullTime,
                       !.lastDisplayedSecond = NullSecond]
      m3 == Emit(m2, "onPhaseChange", <<"COUNTDOWN">>)
      m4 == Emit(m3, "onRoundChange",
                 <<m3.state.currentRound, m3.state.totalRounds>>)
      m5 == Emit(m4, "onStateChange", <<"COUNTDOWN">>)
  IN requestFrame(m5)

start(m) ==
  IF m.state.status # "IDLE" THEN m
  ELSE
    LET m0 == [m EXCEPT !.state.currentRound = 1,
                        !.state.totalRounds = m.config.rounds,
                        !.ok = TRUE]
        m1 == EnterPhase(m0, "COUNTDOWN", CountdownMs)
        m2 == [m1 EXCEPT !.lastTimestamp = NullTime,
                         !.lastDisplayedSecond = NullSecond]
        m3 == Emit(m2, "onPhaseChange", <<"COUNTDOWN">>)
        m4 == Emit(m3, "onRoundChange",
                   <<m3.state.currentRound, m3.state.totalRounds>>)
        m5 == Emit(m4, "onStateChange", <<"COUNTDOWN">>)
    IN requestFrame(m5)

\* Mutant of pause: the state change is not notified.
pauseSilent(m) ==
  IF m.state.status \notin ActiveStates THEN m
  ELSE
    LET m1 == cancelFrame([m EXCEPT !.ok = TRUE])
    IN [m1 EXCEPT !.state.previousStatus = m1.state.status,
                  !.state.status = "PAUSED"]

pause(m) ==
  IF m.state.status \notin ActiveStates THEN m
  ELSE
    LET m1 == cancelFrame([m EXCEPT !.ok = TRUE])
        m2 == [m1 EXCEPT !.state.previousStatus = m1.state.status,
                         !.state.status = "PAUSED"]
    IN Emit(m2, "onStateChange", <<"PAUSED">>)

\* Mutant of resume: the second last displayed is forgotten.
resumeForgetsSecond(m) ==
  IF m.state.status # "PAUSED" \/ m.state.previousStatus = NullStatus THEN m
  ELSE
    LET m1 == [m EXCEPT !.state.status = m.state.previousStatus,
                        !.state.previousStatus = NullStatus,
                        !.lastTimestamp = NullTime,
                        !.lastDisplayedSecond = NullSecond,
                        !.ok = TRUE]
        m2 == Emit(m1, "onStateChange", <<m1.state.status>>)
    IN requestFrame(m2)

\* Mutant of resume: the clock reference is not reset.
resumeKeepsClock(m) ==
  IF m.state.status # "PAUSED" \/ m.state.previousStatus = NullStatus THEN m
  ELSE
    LET m1 == [m EXCEPT !.state.status = m.state.previousStatus,
                        !.state.previousStatus = NullStatus,
                        !.ok = TRUE]
        m2 == Emit(m1, "onStateChange", <<m1.state.status>>)
    IN requestFrame(m2)

resume(m) ==
  IF m.state.status # "PAUSED" \/ m.state.previousStatus = NullStatus THEN m
  ELSE
    LET m1 == [m EXCEPT !.state.status = m.state.previousStatus,
                        !.state.previousStatus = NullStatus,
                        !.lastTimestamp = NullTime,
                        !.ok = TRUE]
        m2 == Emit(m1, "onStateChange", <<m1.state.status>>)
    IN requestFrame(m2)

\* Mutant of reset: currentRound and lastTimestamp are left as they are.
resetKeepsRound(m) ==
  LET m1 == cancelFrame([m EXCEPT !.ok = TRUE])
      m2 == [m1 EXCEPT !.state.status = "IDLE",
                       !.state.previousStatus = NullStatus,
                       !.state.timeRemaining = 0,
                       !.state.phaseDuration = 0,
                       !.lastDisplayedSecond = NullSecond]
  IN Emit(m2, "onStateChange", <<"IDLE">>)

reset(m) ==
  LET m1 == cancelFrame([m EXCEPT !.ok = TRUE])
      m2 == [m1 EXCEPT !.state.status = "IDLE",
                       !.state.previousStatus = NullStatus,
                       !.state.currentRound = 1,
                       !.state.timeRemaining = 0,
                       !.state.phaseDuration = 0,
                       !.lastTimestamp = NullTime,
                       !.lastDisplayedSecond = NullSecond]
  IN Emit(m2, "onStateChange", <<"IDLE">>)

\* Mutant of restorePaused: previousStatus is not cleared.
restorePausedKeepsPrevious(m) ==
  IF m.state.status = "PAUSED" /\ m.state.previousStatus # NullStatus
    THEN [m EXCEPT !.state.status = m.state.previousStatus]
    ELSE m

\* skip, lines 187-192: a paused timer gets its previous status back
restorePaused(m) ==
  IF m.state.status = "PAUSED" /\ m.state.previousStatus # NullStatus
    THEN [m EXCEPT !.state.status = m.state.previousStatus,
                   !.state.previousStatus = NullStatus]
    ELSE m

\* Mutant of forcePhaseEnd: timeRemaining is not forced to 0.
forcePhaseEndKeepsTime(m) ==
  handlePhaseEnd(cancelFrame([m EXCEPT !.ok = TRUE]))

\* skip, lines 196-202: force the current phase to end
forcePhaseEnd(m) ==
  handlePhaseEnd(cancelFrame([m EXCEPT !.state.timeRemaining = 0,
                                       !.ok = TRUE]))

skip(m) ==
  LET m1 == restorePaused(m)
  IN IF m1.state.status \notin ActiveStates THEN m1 ELSE forcePhaseEnd(m1)

\* ---------------------------------------------------------------- actions

\* ------------------------------------------------- the page (sound.js)
\* var timer, var isPaused, the screen shown, WakeLockManager's sentinel and
\* shouldBeActive; of the browser: the wake lock requests not yet settled,
\* the sentinels whose release() has not yet settled, the wake locks the
\* page holds, and whether the document is visible.
InitialApp ==
  [timer |-> FALSE, isPaused |-> FALSE, screen |-> "setup-screen",
   sentinel |-> NullSentinel, shouldBeActive |-> FALSE,
   requests |-> 0, releasing |-> {}, held |-> {}, visible |-> TRUE]

\* WakeLockManager.request, up to its await
request(a) ==
  [a EXCEPT !.shouldBeActive = TRUE, !.requests = @ + 1]

\* WakeLockManager.release, up to its await
release(a) ==
  IF a.sentinel # NullSentinel
    THEN [a EXCEPT !.shouldBeActive = FALSE,
                   !.releasing = @ \cup {a.sentinel}]
    ELSE [a EXCEPT !.shouldBeActive = FALSE]

isActive(a) == a.sentinel # NullSentinel

onComplete(a) == release([a EXCEPT !.screen = "complete-screen"])

onStateChange(a, status) ==
  IF status = "PAUSED" THEN [a EXCEPT !.isPaused = TRUE]
  ELSE IF status = "IDLE"
    THEN release([a EXCEPT !.isPaused = FALSE, !.screen = "setup-screen"])
  ELSE [a EXCEPT !.isPaused = FALSE]

\* The page's callbacks run for the calls of the timer, in order; onTick,
\* onPhaseChange, onRoundChange and onSound write the document only.
RECURSIVE Deliver(_, _)
Deliver(a, out) ==
  IF out = <<>> THEN a
  ELSE LET e == Head(out)
           a1 == IF e.cb = "onComplete" THEN onComplete(a)
                 ELSE IF e.cb = "onStateChange"
                   THEN onStateChange(a, e.arg[1])
                 ELSE a
       IN Deliver(a1, Tail(out))

\* The wake lock a granted request creates.
FreshSentinel(a) ==
  LET used == a.held \cup a.releasing \cup {a.sentinel}
  IN CHOOSE i \in 1..(Cardinality(used) + 1) :
       i \notin used /\ \A j \in 1..(i - 1) : j \in used

\* Room for one more wake lock among those requested, held or being
\* released.
CanRequest(a) ==
  a.requests + Cardinality(a.held \cup a.releasing) < MaxLocks

NotLeft == [at |-> NullTime, by |-> "none"]

NoTick == [delta |-> 0, reference |-> NullTime, timestamp |-> NullTime,
           leftPaused |-> NotLeft, statusBefore |-> NullStatus,
           timeBefore |-> 0, wasStale |-> FALSE, sounded |-> <<>>,
           durationBefore |-> 0, ticks |-> 0]

IsCountdownSound(e) == e = [cb |-> "onSound", arg |-> <<"countdown">>]

IsRunCall(e) == e.cb \in {"onPhaseChange", "onRoundChange", "onComplete"}

PhaseEntry(m) ==
  [phase |-> m.state.status,
   timeRemaining |-> m.state.timeRemaining,
   phaseDuration |-> m.state.phaseDuration]

\* The variables of the closure and what the call showed, after a call
\* that left the closure as m.
Install(m, op) ==
  /\ state' = m.state
  /\ rafId' = m.rafId
  /\ lastTimestamp' = m.lastTimestamp
  /\ lastDisplayedSecond' = m.lastDisplayedSecond
  /\ pending' = m.pending
  /\ lastOp' = op
  /\ accepted' = m.ok
  /\ emitted' = m.out
  /\ phasesEntered' =
       LET base == IF m.ok /\ op \in {"start", "reset"}
                     THEN <<>> ELSE phasesEntered
       IN IF m.entered THEN Append(base, PhaseEntry(m)) ELSE base
  /\ runCalls' =
       LET base == IF m.ok /\ op \in {"start", "reset"}
                     THEN <<>> ELSE runCalls
       IN base \o SelectSeq(m.out, IsRunCall)
  /\ stale' =
       IF m.ok /\ op \in {"pause", "reset", "skip"}
         THEN (stale \cup pending) \ m.cancelled
         ELSE (stale \cap m.pending) \ m.cancelled
  /\ before' = [status |-> state.status,
                phase |-> IF state.status = "PAUSED"
                            THEN state.previousStatus ELSE state.status,
                round |-> state.currentRound,
                op |-> IF m.ok /\ op \in {"start", "skip"} /\ accepted
                         THEN lastOp ELSE "none"]
  /\ sounded' =
       LET base == IF m.entered \/ (m.ok /\ op \in {"start", "reset"})
                     THEN <<>> ELSE sounded
       IN base \o [i \in 1..Len(SelectSeq(m.out, IsCountdownSound)) |->
                    CeilSeconds(m.state.timeRemaining)]
  /\ UNCHANGED <<config, now>>

\* A call its guard rejected is compared with the closure it found.
Rejected(m) == IF m.ok THEN <<>> ELSE <<Machine>>

Start ==
  \E m \in {start(Machine)} :
    /\ Install(m, "start")
    /\ counterpart' = IF m.ok THEN <<start(FreshMachine(config))>>
                        ELSE <<Machine>>
    /\ lastTick' = NoTick
    /\ leftPaused' = IF m.ok THEN NotLeft ELSE leftPaused
    /\ beforePause' = IF m.ok THEN <<>> ELSE beforePause
    /\ ticksInPhase' = IF m.ok THEN 0 ELSE ticksInPhase

Pause ==
  \E m \in {pause(Machine)} :
    /\ Install(m, "pause")
    /\ counterpart' = Rejected(m)
    /\ lastTick' = NoTick
    /\ leftPaused' = IF m.ok THEN NotLeft ELSE leftPaused
    /\ beforePause' = IF m.ok THEN <<[state |-> state, at |-> now]>>
                        ELSE beforePause
    /\ UNCHANGED ticksInPhase

Resume ==
  \E m \in {resume(Machine)} :
    /\ Install(m, "resume")
    /\ counterpart' = Rejected(m)
    /\ lastTick' = NoTick
    /\ leftPaused' = IF m.ok THEN [at |-> now, by |-> "resume"]
                       ELSE leftPaused
    /\ UNCHANGED <<beforePause, ticksInPhase>>

Reset ==
  \E m \in {reset(Machine)} :
    /\ Install(m, "reset")
    /\ counterpart' = <<FreshMachine(config)>>
    /\ lastTick' = NoTick
    /\ leftPaused' = NotLeft
    /\ beforePause' = <<>>
    /\ ticksInPhase' = 0

Skip ==
  \E m \in {skip(Machine)} :
    /\ Install(m, "skip")
    /\ counterpart' =
         IF ~m.ok THEN <<Machine>>
         ELSE IF state.status = "PAUSED" THEN <<skip(resume(Machine))>>
         ELSE <<expire(Machine)>>
    /\ lastTick' = NoTick
    /\ leftPaused' = IF state.status = "PAUSED" /\ m.ok
                       THEN [at |-> now, by |-> "skip"]
                       ELSE leftPaused
    /\ beforePause' = IF m.ok THEN <<>> ELSE beforePause
    /\ ticksInPhase' = IF m.ok THEN 0 ELSE ticksInPhase

\* The browser runs the frame callback with handle h at the current time.
Tick(h) ==
  /\ h \in pending
  /\ \E m \in {tick([Machine EXCEPT !.pending = @ \ {h}], now)} :
       /\ Install(m, "tick")
       /\ counterpart' = IF Expires(Machine, now)
                           THEN <<skip(Machine)>> ELSE <<>>
       /\ lastTick' = [delta |-> TickDelta(Machine, now),
                       reference |-> TickReference(Machine, now),
                       timestamp |-> now,
                       leftPaused |-> leftPaused,
                       statusBefore |-> state.status,
                       timeBefore |-> state.timeRemaining,
                       wasStale |-> h \in stale,
                       sounded |-> sounded,
                       durationBefore |-> state.phaseDuration,
                       ticks |-> ticksInPhase]
       /\ leftPaused' = NotLeft
       /\ beforePause' =
            IF leftPaused.by = "resume" THEN beforePause ELSE <<>>
       /\ UNCHANGED ticksInPhase

\* Wall-clock time passes.
Elapse(d) ==
  /\ now + d <= MaxClock
  /\ now' = now + d
  /\ UNCHANGED <<config, state, rafId, lastTimestamp, lastDisplayedSecond,
                 pending, lastOp, accepted, emitted, lastTick, leftPaused,
                 beforePause,
                 phasesEntered, runCalls, stale, before, counterpart,
          ticksInPhase, sounded>>

Init ==
  /\ config \in Configs
  /\ state = InitialState(config)
  /\ rafId = NullRaf
  /\ lastTimestamp = NullTime
  /\ lastDisplayedSecond = NullSecond
  /\ pending = {}
  /\ now = 0
  /\ lastOp = "createTimer"
  /\ accepted = TRUE
  /\ emitted = <<>>
  /\ lastTick = NoTick
  /\ leftPaused = NotLeft
  /\ beforePause = <<>>
  /\ phasesEntered = <<>>
  /\ runCalls = <<>>
  /\ stale = {}
  /\ before = [status |-> "IDLE", phase |-> "IDLE", round |-> 1,
               op |-> "none"]
  /\ counterpart = <<>>
  /\ sounded = <<>>
  /\ ticksInPhase = 0
  /\ app = InitialApp

\* The timer alone: the page does not change.
Next ==
  /\ \/ Start
     \/ Pause
     \/ Resume
     \/ Reset
     \/ Skip
     \/ \E h \in pending : Tick(h)
     \/ \E d \in ElapseSteps : Elapse(d)
  /\ UNCHANGED app

Spec == Init /\ [][Next]_vars

\* ------------------------------------------- the timer on a frame clock
\* tick reads its timestamp only through timestamp - lastTimestamp (line
\* 47), so the origin of the clock may be moved to the timestamp of each
\* tick: a frame is then described by the time since the previous frame,
\* pauses included, and the clock needs no bound.
FrameGaps == {500, 1500, 7000}

Rebase(m, origin) ==
  [m EXCEPT !.lastTimestamp = IF @ = NullTime THEN @ ELSE @ - origin]

CountTick(n) == IF n < TickCap THEN n + 1 ELSE TickCap

\* The browser runs the frame callback with handle h, d ms after the
\* previous frame; the ticks of the phase are counted where asked.
FrameTick(h, d, counting) ==
  /\ h \in pending
  /\ \E m \in {tick([Machine EXCEPT !.pending = @ \ {h}], now + d)} :
     \E expires \in {Expires(Machine, now + d)} :
       /\ Install(Rebase(m, now + d), "tick")
       /\ counterpart' = IF expires THEN <<skip(Machine)>> ELSE <<>>
       /\ lastTick' = [delta |-> TickDelta(Machine, now + d),
                       reference |-> TickReference(Machine, now + d),
                       timestamp |-> now + d,
                       leftPaused |-> leftPaused,
                       statusBefore |-> state.status,
                       timeBefore |-> state.timeRemaining,
                       wasStale |-> h \in stale,
                       sounded |-> sounded,
                       durationBefore |-> state.phaseDuration,
                       ticks |-> IF counting THEN CountTick(ticksInPhase)
                                 ELSE ticksInPhase]
       /\ leftPaused' = NotLeft
       /\ beforePause' =
            IF leftPaused.by = "resume" THEN beforePause ELSE <<>>
       /\ ticksInPhase' = IF expires \/ ~counting THEN 0
                          ELSE CountTick(ticksInPhase)

CountedTicks ==
  \E h \in pending : \E d \in FrameGaps : FrameTick(h, d, TRUE)

FrameNext ==
  /\ \/ Start
     \/ Pause
     \/ Resume
     \/ Reset
     \/ Skip
     \/ CountedTicks
  /\ UNCHANGED app

FrameSpec == Init /\ [][FrameNext]_vars

\* ------------------------------------------------------------ the page
handleStart ==
  /\ app.screen = "setup-screen"
  /\ CanRequest(app)
  /\ \E m \in {start(FreshMachine(config))} :
       /\ Install(m, "start")
       /\ app' = request(Deliver([app EXCEPT !.timer = TRUE,
                                             !.isPaused = FALSE,
                                             !.screen = "timer-screen"],
                                 m.out))
  /\ counterpart' = <<>>
  /\ lastTick' = NoTick
  /\ leftPaused' = NotLeft
  /\ beforePause' = <<>>
  /\ ticksInPhase' = 0

handlePlayPause ==
  /\ app.screen = "timer-screen"
  /\ app.timer
  /\ IF app.isPaused THEN Resume ELSE Pause
  /\ app' = Deliver(app, emitted')

handleReset ==
  /\ app.screen = "timer-screen"
  /\ app.timer
  /\ Reset
  /\ app' = [Deliver(app, emitted') EXCEPT !.timer = FALSE]

\* Mutant of handleSkip: isPaused is left as it was.
handleSkipKeepsFlag ==
  /\ app.screen = "timer-screen"
  /\ app.timer
  /\ Skip
  /\ app' = Deliver(app, emitted')

handleSkip ==
  /\ app.screen = "timer-screen"
  /\ app.timer
  /\ Skip
  /\ app' = Deliver([app EXCEPT !.isPaused = FALSE], emitted')

handleDone ==
  /\ app.screen = "complete-screen"
  /\ app' = [app EXCEPT !.screen = "setup-screen", !.timer = FALSE]
  /\ UNCHANGED timerVars

\* A frame of the timer, its callbacks delivered to the page.
Frame ==
  /\ \E h \in pending : \E d \in FrameGaps : FrameTick(h, d, FALSE)
  /\ app' = Deliver(app, emitted')

\* navigator.wakeLock.request resolves: request() goes on after its await.
RequestGranted ==
  /\ app.requests > 0
  /\ app.visible
  /\ app' = [app EXCEPT !.requests = @ - 1,
                        !.sentinel = FreshSentinel(app),
                        !.held = @ \cup {FreshSentinel(app)}]
  /\ UNCHANGED timerVars

\* navigator.wakeLock.request rejects: request() ends in its catch.
RequestRejected ==
  /\ app.requests > 0
  /\ app' = [app EXCEPT !.requests = @ - 1]
  /\ UNCHANGED timerVars

\* sentinel.release() settles: the lock is given up, its 'release' listener
\* runs and release() goes on after its await.
ReleaseSettles(s) ==
  /\ s \in app.releasing
  /\ app' = [app EXCEPT !.releasing = @ \ {s},
                        !.held = @ \ {s},
                        !.sentinel = NullSentinel]
  /\ UNCHANGED timerVars

\* The document is hidden: the browser releases the page's wake locks, and
\* their 'release' listeners run.
Hidden ==
  /\ app.visible
  /\ app' = [app EXCEPT !.visible = FALSE,
                        !.held = {},
                        !.sentinel = IF app.held = {} THEN @
                                     ELSE NullSentinel]
  /\ UNCHANGED timerVars

\* The document is visible again: the visibilitychange listener.
Visible ==
  /\ ~app.visible
  /\ app' = IF app.shouldBeActive /\ app.sentinel = NullSentinel
                /\ CanRequest(app)
               THEN request([app EXCEPT !.visible = TRUE])
               ELSE [app EXCEPT !.visible = TRUE]
  /\ UNCHANGED timerVars

AppNext ==
  \/ handleStart
  \/ handlePlayPause
  \/ handleReset
  \/ handleSkip
  \/ handleDone
  \/ Frame
  \/ RequestGranted
  \/ RequestRejected
  \/ \E s \in app.releasing : ReleaseSettles(s)
  \/ Hidden
  \/ Visible

AppSpec == Init /\ [][AppNext]_vars

\* --------------------------------------------- the timer left to run
FrameTicks ==
  \E h \in pending : \E d \in FrameGaps : FrameTick(h, d, FALSE)

\* A paused timer is resumed or skipped.
LeavePaused ==
  /\ state.status = "PAUSED"
  /\ Resume \/ Skip
  /\ UNCHANGED app

\* reset() is never called.
LiveNext ==
  /\ \/ Start
     \/ Pause
     \/ Resume
     \/ Skip
     \/ FrameTicks
  /\ UNCHANGED app

\* The browser runs every frame it was asked for, and a pause does not last
\* for ever.
LiveSpec ==
  /\ Init
  /\ [][LiveNext]_vars
  /\ WF_vars(FrameTicks /\ UNCHANGED app)
  /\ WF_vars(LeavePaused)

\* ----------------------------------------------------------------- claims

\* C1: exactly one scheduled tick is pending (the one rafId names) whenever
\* status is COUNTDOWN, WORK or REST and none whenever it is PAUSED, IDLE or
\* COMPLETE; no pending tick outlives a pause, reset or skip, and no tick
\* executes while the status is IDLE, PAUSED or COMPLETE.
C1_OnePendingTick ==
  /\ state.status \in ActiveStates =>
        /\ Cardinality(pending) = 1
        /\ pending = {rafId}
  /\ state.status \notin ActiveStates => pending = {}
  /\ stale = {}
  /\ lastOp = "tick" =>
        /\ lastTick.statusBefore \in ActiveStates
        /\ ~lastTick.wasStale

\* A running timer with ticks behind it was paused: its tick is cancelled.
C1_Witness ==
  /\ lastOp = "pause" /\ accepted
  /\ state.status = "PAUSED"
  /\ lastTimestamp # NullTime
  /\ state.timeRemaining < state.phaseDuration
  /\ pending = {}


\* The phases of a full run under cfg: one COUNTDOWN, then WORK and REST in
\* alternation, rounds WORK phases and rounds - 1 REST phases, each with its
\* full duration.
ExpectedPhases(cfg) ==
  [i \in 1..(2 * cfg.rounds) |->
     IF i = 1
       THEN [phase |-> "COUNTDOWN", timeRemaining |-> 3000,
             phaseDuration |-> 3000]
     ELSE IF i % 2 = 0
       THEN [phase |-> "WORK", timeRemaining |-> cfg.workDuration * 1000,
             phaseDuration |-> cfg.workDuration * 1000]
       ELSE [phase |-> "REST", timeRemaining |-> cfg.restDuration * 1000,
             phaseDuration |-> cfg.restDuration * 1000]]

IsPrefix(s, t) == Len(s) <= Len(t) /\ s = SubSeq(t, 1, Len(s))

IsPhaseChange(e) == e.cb = "onPhaseChange"

\* C2: a run from start() that no reset() interrupts enters one COUNTDOWN
\* phase, then WORK and REST phases in strict alternation, each with
\* timeRemaining = phaseDuration = its full duration, and fires onPhaseChange
\* exactly once per phase entered; when it completes it has entered exactly
\* totalRounds WORK phases and totalRounds - 1 REST phases.
C2_FullRun ==
  state.status # "IDLE" =>
    /\ phasesEntered # <<>>
    /\ IsPrefix(phasesEntered, ExpectedPhases(config))
    /\ SelectSeq(runCalls, IsPhaseChange) =
         [i \in 1..Len(phasesEntered) |->
            [cb |-> "onPhaseChange", arg |-> <<phasesEntered[i].phase>>]]
    /\ state.status = "COMPLETE" => phasesEntered = ExpectedPhases(config)

\* A run of two rounds completed, the last WORK phase by expiry.
C2_Witness ==
  /\ state.status = "COMPLETE"
  /\ config.rounds = 2
  /\ config.workDuration # config.restDuration
  /\ Len(phasesEntered) = 4
  /\ lastOp = "tick"


\* C3: pause() then resume() restores the interrupted status and leaves
\* currentRound, timeRemaining and phaseDuration (the whole state object)
\* as they were before the pause, and the first tick after resume()
\* subtracts a delta of 0, however long the pause lasted.
C3_PauseResume ==
  /\ (lastOp = "resume" /\ accepted) =>
        /\ beforePause # <<>>
        /\ beforePause[1].state.status \in ActiveStates
        /\ state = beforePause[1].state
  /\ (lastOp = "tick" /\ lastTick.leftPaused.by = "resume") =>
        /\ lastTick.delta = 0
        /\ state.timeRemaining = lastTick.timeBefore
        /\ beforePause # <<>> => state = beforePause[1].state

\* The first tick after a resume, of a phase that ticks had shortened, after
\* a pause of more than a second and a frame later than the resume.
C3_Witness ==
  /\ lastOp = "tick"
  /\ lastTick.leftPaused.by = "resume"
  /\ beforePause # <<>>
  /\ lastTick.leftPaused.at >= beforePause[1].at + 1500
  /\ lastTick.timestamp > lastTick.leftPaused.at
  /\ state.status = "WORK"
  /\ state.timeRemaining < state.phaseDuration


\* C4: wall-clock time that passes while PAUSED is never charged: however
\* PAUSED was left (resume(), or skip() while paused), the first tick
\* afterwards measures its delta from an instant no earlier than the moment
\* PAUSED was left.
C4_PausedTimeNotCharged ==
  (lastOp = "tick" /\ lastTick.leftPaused.by # "none") =>
    lastTick.reference >= lastTick.leftPaused.at


\* What the claims compare of a timer: the state object's fields.
StatusRoundTime(st) ==
  <<st.status, st.currentRound, st.timeRemaining, st.phaseDuration>>

CallNames(out) == {out[i].cb : i \in 1..Len(out)}

\* C5: skip() from COUNTDOWN, WORK or REST leaves the same status,
\* currentRound, timeRemaining and phaseDuration as a tick that drives
\* timeRemaining to 0 in that state, and a tick that ends a phase leaves the
\* same as skip() would have; start() immediately followed by skip() lands in
\* WORK round 1 with no onComplete and no further onRoundChange.
C5_SkipLikeExpiry ==
  /\ (lastOp = "skip" /\ accepted /\ before.status \in ActiveStates) =>
        StatusRoundTime(state) = StatusRoundTime(counterpart[1].state)
  /\ (lastOp = "tick" /\ counterpart # <<>>) =>
        StatusRoundTime(state) = StatusRoundTime(counterpart[1].state)
  /\ (lastOp = "skip" /\ accepted /\ before.op = "start") =>
        /\ state.status = "WORK"
        /\ state.currentRound = 1
        /\ CallNames(emitted) \cap {"onComplete", "onRoundChange"} = {}
        /\ runCalls =
             << [cb |-> "onPhaseChange", arg |-> <<"COUNTDOWN">>],
                [cb |-> "onRoundChange", arg |-> <<1, config.rounds>>],
                [cb |-> "onPhaseChange", arg |-> <<"WORK">>] >>

\* The last WORK phase, shortened by ticks, is skipped: the run completes
\* with the time forced to 0.
C5_Witness ==
  /\ lastOp = "skip" /\ accepted
  /\ before.status = "WORK"
  /\ state.status = "COMPLETE"
  /\ config.rounds = 2
  /\ lastTimestamp # NullTime


Call(cb, arg) == [cb |-> cb, arg |-> arg]

\* The phase-end callbacks of the transition table, for a phase `from` that
\* ended in state st under cfg.
PhaseEndCallbacks(from, st, cfg) ==
  IF from = "COUNTDOWN"
    THEN <<Call("onPhaseChange", <<"WORK">>), Call("onSound", <<"start">>)>>
  ELSE IF from = "WORK" /\ st.status = "COMPLETE"
    THEN <<Call("onComplete",
                <<cfg.rounds, cfg.workDuration, cfg.restDuration>>),
           Call("onSound", <<"complete">>),
           Call("onStateChange", <<"COMPLETE">>)>>
  ELSE IF from = "WORK"
    THEN <<Call("onPhaseChange", <<"REST">>),
           Call("onSound", <<"workToRest">>)>>
    ELSE <<Call("onPhaseChange", <<"WORK">>),
           Call("onRoundChange", <<st.currentRound, st.totalRounds>>),
           Call("onSound", <<"restToWork">>)>>

IsFinalTick(e) == e.cb = "onTick" /\ e.arg[1] = 0

\* C6 as amended: skip() emits the phase-end callbacks of the transition
\* table, in the table's order, and no onTick; the tick that ends the same
\* phase emits one final onTick carrying timeRemaining = 0 and then the
\* same callbacks.
C6_SkipCallbacks ==
  /\ (lastOp = "skip" /\ accepted /\ before.status \in ActiveStates) =>
        /\ emitted = PhaseEndCallbacks(before.status, state, config)
        /\ Len(counterpart[1].out) = Len(emitted) + 1
        /\ IsFinalTick(Head(counterpart[1].out))
        /\ Tail(counterpart[1].out) = emitted
  /\ (lastOp = "tick" /\ counterpart # <<>>) =>
        /\ emitted # <<>>
        /\ IsFinalTick(Head(emitted))
        /\ Tail(emitted) = PhaseEndCallbacks(before.status, state, config)
        /\ Tail(emitted) = counterpart[1].out

\* C6 as claimed: the callbacks skip() emits are those of the tick that ends
\* the phase, the final onTick with timeRemaining = 0 included.
C6_Original ==
  (lastOp = "skip" /\ accepted /\ before.status \in ActiveStates) =>
    emitted = counterpart[1].out

\* A REST phase is skipped into the second round.
C6_Witness ==
  /\ lastOp = "skip" /\ accepted
  /\ before.status = "REST"
  /\ state.status = "WORK"
  /\ state.currentRound = 2
  /\ Len(emitted) = 3


\* C7: skip() while PAUSED leaves the timer as resume() immediately followed
\* by skip() would: the same status, currentRound, timeRemaining and
\* phaseDuration, no previousStatus, the same clock reference for the next
\* tick's delta and the same number of pending ticks.
C7_SkipWhilePaused ==
  (lastOp = "skip" /\ accepted /\ before.status = "PAUSED") =>
    /\ StatusRoundTime(state) = StatusRoundTime(counterpart[1].state)
    /\ state.previousStatus = NullStatus
    /\ counterpart[1].state.previousStatus = NullStatus
    /\ lastTimestamp = counterpart[1].lastTimestamp
    /\ Cardinality(pending) = Cardinality(counterpart[1].pending)


IsStateChange(e) == e.cb = "onStateChange"

StateChanges(out) == SelectSeq(out, IsStateChange)

\* C8 as amended: onStateChange is fired, with the new status, by every
\* accepted start(), pause(), resume() and reset() and by the phase-end
\* transition into COMPLETE (by tick or skip), once each, and by nothing
\* else: the phase-end transitions into WORK and REST and the status skip()
\* restores when called while PAUSED are not notified through onStateChange.
C8_StateChangeCalls ==
  /\ \A i \in 1..Len(emitted) :
        IsStateChange(emitted[i]) => emitted[i].arg = <<state.status>>
  /\ (lastOp \in {"start", "pause", "resume", "reset"} /\ accepted) =>
        StateChanges(emitted) = <<Call("onStateChange", <<state.status>>)>>
  /\ (lastOp \in {"skip", "tick"} /\ accepted) =>
        StateChanges(emitted) =
          IF state.status = "COMPLETE"
            THEN <<Call("onStateChange", <<"COMPLETE">>)>>
            ELSE <<>>
  /\ ~accepted => emitted = <<>>
  /\ (lastOp = "start" /\ accepted) => state.status = "COUNTDOWN"
  /\ (lastOp = "pause" /\ accepted) => state.status = "PAUSED"
  /\ (lastOp = "resume" /\ accepted) => state.status \in ActiveStates
  /\ lastOp = "reset" => state.status = "IDLE"

\* C8 as claimed: every call that changes state.status emits onStateChange
\* with the new status.
C8_Original ==
  (lastOp # "createTimer" /\ state.status # before.status) =>
    Call("onStateChange", <<state.status>>) \in
      {emitted[i] : i \in 1..Len(emitted)}

\* skip() while PAUSED over a WORK phase: the status goes from PAUSED to
\* REST and no onStateChange is fired.
C8_Witness ==
  /\ lastOp = "skip" /\ accepted
  /\ before.status = "PAUSED"
  /\ state.status = "REST"
  /\ StateChanges(emitted) = <<>>


\* The variables of the closure, and the frame callbacks pending for it.
Closure(m) ==
  <<m.state, m.rafId, m.lastTimestamp, m.lastDisplayedSecond, m.pending>>

\* C9: reset() in any state cancels the pending tick, fires
\* onStateChange(IDLE) and leaves the closure as construction left it (status
\* IDLE, no previousStatus, currentRound 1, timeRemaining 0, phaseDuration 0,
\* totalRounds unchanged, no pending tick); a start() that follows behaves as
\* start() on a timer just constructed.
C9_ResetIsFresh ==
  /\ lastOp = "reset" =>
        /\ state = [status |-> "IDLE", previousStatus |-> NullStatus,
                    currentRound |-> 1, totalRounds |-> config.rounds,
                    timeRemaining |-> 0, phaseDuration |-> 0]
        /\ pending = {}
        /\ Closure(Machine) = Closure(FreshMachine(config))
        /\ emitted = <<Call("onStateChange", <<"IDLE">>)>>
  /\ (lastOp = "start" /\ accepted /\ before.op = "reset") =>
        /\ Closure(Machine) = Closure(counterpart[1])
        /\ emitted = counterpart[1].out

\* A paused timer is reset, 1.5 s or more after its construction.
C9_Witness ==
  /\ lastOp = "reset"
  /\ before.status = "PAUSED"
  /\ now >= 1500
  /\ state.status = "IDLE"

\* C10: start() when status is not IDLE, pause() when it is IDLE, PAUSED or
\* COMPLETE, resume() when it is not PAUSED and skip() when it is IDLE or
\* COMPLETE are rejected; a rejected call leaves the closure and the pending
\* ticks as they were and fires no callback; COMPLETE is left only through
\* reset().
C10_InvalidCallsAreNoOps ==
  /\ (lastOp = "start" /\ before.status # "IDLE") => ~accepted
  /\ (lastOp = "pause" /\ before.status \in {"IDLE", "PAUSED", "COMPLETE"})
        => ~accepted
  /\ (lastOp = "resume" /\ before.status # "PAUSED") => ~accepted
  /\ (lastOp = "skip" /\ before.status \in {"IDLE", "COMPLETE"}) => ~accepted
  /\ ~accepted =>
        /\ counterpart # <<>>
        /\ Closure(Machine) = Closure(counterpart[1])
        /\ state.status = before.status
        /\ emitted = <<>>
  /\ (before.status = "COMPLETE" /\ state.status # "COMPLETE") =>
        lastOp = "reset"

\* skip() on a completed run of two rounds: nothing happens.
C10_Witness ==
  /\ lastOp = "skip" /\ ~accepted
  /\ state.status = "COMPLETE"
  /\ state.currentRound = 2
  /\ pending = {}


\* C11: status is PAUSED exactly when previousStatus is set, and it then
\* holds the interrupted status, one of COUNTDOWN, WORK and REST.
C11_PreviousStatus ==
  /\ state.status = "PAUSED" <=> state.previousStatus # NullStatus
  /\ state.previousStatus # NullStatus =>
        state.previousStatus \in ActiveStates
  /\ (lastOp = "pause" /\ accepted) => state.previousStatus = before.status

\* A REST phase is paused.
C11_Witness ==
  /\ state.status = "PAUSED"
  /\ state.previousStatus = "REST"
  /\ lastOp = "pause"

\* C12: 0 <= timeRemaining <= phaseDuration always, and between calls
\* timeRemaining > 0 whenever status is COUNTDOWN, WORK or REST, or PAUSED
\* over one of them.
C12_TimeRemaining ==
  /\ 0 <= state.timeRemaining
  /\ state.timeRemaining <= state.phaseDuration
  /\ state.status \in ActiveStates \cup {"PAUSED"} => state.timeRemaining > 0

\* A tick whose delta exceeds what was left ends a COUNTDOWN: the time is
\* clamped and the WORK phase starts full.
C12_Witness ==
  /\ lastOp = "tick"
  /\ lastTick.timeBefore < lastTick.delta
  /\ state.status = "WORK"
  /\ state.timeRemaining = state.phaseDuration

\* C13: 1 <= currentRound <= totalRounds; currentRound changes only by +1 on
\* a REST to WORK transition (by tick or skip) or back to 1 by start() or
\* reset(); REST is entered only with currentRound < totalRounds.
C13_Rounds ==
  /\ 1 <= state.currentRound
  /\ state.currentRound <= state.totalRounds
  /\ state.totalRounds = config.rounds
  /\ state.currentRound # before.round =>
        \/ /\ lastOp \in {"tick", "skip"}
           /\ before.phase = "REST"
           /\ state.status = "WORK"
           /\ state.currentRound = before.round + 1
        \/ /\ lastOp \in {"start", "reset"}
           /\ state.currentRound = 1
  /\ (lastOp \in {"tick", "skip"} /\ before.phase = "REST"
        /\ state.status = "WORK") =>
        state.currentRound = before.round + 1
  /\ (state.status = "REST" \/ state.previousStatus = "REST") =>
        state.currentRound < state.totalRounds

\* A REST phase paused in round 1 is skipped: round 2 starts.
C13_Witness ==
  /\ lastOp = "skip"
  /\ before.status = "PAUSED"
  /\ before.phase = "REST"
  /\ before.round = 1
  /\ state.currentRound = 2

IsComplete(e) == e.cb = "onComplete"

\* C14: onComplete is fired once per run, only when a WORK phase ends (by
\* expiry or skip) with currentRound = totalRounds, carrying the configured
\* rounds, work and rest durations, and is followed at once by
\* onSound('complete') and onStateChange(COMPLETE); afterwards no tick is
\* pending and no callback fires until reset().
C14_Completion ==
  /\ Len(SelectSeq(runCalls, IsComplete)) =
        IF state.status = "COMPLETE" THEN 1 ELSE 0
  /\ SelectSeq(emitted, IsComplete) # <<>> =>
        /\ lastOp \in {"tick", "skip"}
        /\ before.phase = "WORK"
        /\ before.round = config.rounds
        /\ state.status = "COMPLETE"
        /\ Len(emitted) >= 3
        /\ SubSeq(emitted, Len(emitted) - 2, Len(emitted)) =
             << Call("onComplete", <<config.rounds, config.workDuration,
                                     config.restDuration>>),
                Call("onSound", <<"complete">>),
                Call("onStateChange", <<"COMPLETE">>) >>
        /\ Len(SelectSeq(emitted, IsComplete)) = 1
  /\ (lastOp \in {"tick", "skip"} /\ before.phase = "WORK"
        /\ before.round = config.rounds /\ state.status # "PAUSED"
        /\ (lastOp = "skip" \/ counterpart # <<>>)) =>
        state.status = "COMPLETE"
  /\ state.status = "COMPLETE" => pending = {}
  /\ (before.status = "COMPLETE" /\ lastOp # "reset") =>
        /\ emitted = <<>>
        /\ state.status = "COMPLETE"

\* The last WORK phase of two rounds expires.
C14_Witness ==
  /\ lastOp = "tick"
  /\ state.status = "COMPLETE"
  /\ before.round = 2
  /\ Len(emitted) = 4

IsRoundChange(e) == e.cb = "onRoundChange"

IsNotTick(e) == e.cb # "onTick"

\* C15: onRoundChange is fired by start() with (1, totalRounds) and on each
\* REST to WORK transition with the incremented round, between
\* onPhaseChange(WORK) and onSound('restToWork'), and at no other time; the
\* rounds reported since start() are 1, 2, ... up to the current round, and
\* 1..totalRounds at COMPLETE.
C15_RoundChanges ==
  /\ SelectSeq(emitted, IsRoundChange) =
        IF lastOp = "start" /\ accepted
          THEN << Call("onRoundChange", <<1, config.rounds>>) >>
        ELSE IF /\ lastOp \in {"tick", "skip"}
                /\ before.phase = "REST"
                /\ state.status = "WORK"
          THEN << Call("onRoundChange",
                       <<before.round + 1, config.rounds>>) >>
        ELSE <<>>
  /\ (lastOp \in {"tick", "skip"} /\ before.phase = "REST"
        /\ state.status = "WORK") =>
        SelectSeq(emitted, IsNotTick) =
          << Call("onPhaseChange", <<"WORK">>),
             Call("onRoundChange", <<state.currentRound, config.rounds>>),
             Call("onSound", <<"restToWork">>) >>
  /\ SelectSeq(runCalls, IsRoundChange) =
        IF state.status = "IDLE" THEN <<>>
        ELSE [i \in 1..state.currentRound |->
                Call("onRoundChange", <<i, config.rounds>>)]
  /\ state.status = "COMPLETE" => state.currentRound = config.rounds

\* A run of two rounds is complete: one onRoundChange followed the one of
\* start(), reporting (2, 2).
C15_Witness ==
  /\ state.status = "COMPLETE"
  /\ config.rounds = 2
  /\ SelectSeq(runCalls, IsRoundChange) =
        << Call("onRoundChange", <<1, 2>>), Call("onRoundChange", <<2, 2>>) >>

\* C17: the 'countdown' sound comes only from a tick in WORK or REST that
\* leaves 1, 2 or 3 whole seconds remaining, at most once per whole-second
\* value within one phase, pauses and resumes included, and never during
\* COUNTDOWN.
C17_CountdownSound ==
  /\ SelectSeq(emitted, IsCountdownSound) # <<>> =>
        /\ lastOp = "tick"
        /\ Len(SelectSeq(emitted, IsCountdownSound)) = 1
        /\ state.status \in {"WORK", "REST"}
        /\ lastTick.statusBefore = state.status
        /\ \E s \in 1..3 :
             /\ (s - 1) * 1000 < state.timeRemaining
             /\ state.timeRemaining <= s * 1000
             /\ sounded = Append(lastTick.sounded, s)
  /\ \A i, j \in 1..Len(sounded) : i # j => sounded[i] # sounded[j]
  /\ \A i \in 1..Len(sounded) : sounded[i] \in 1..3
  /\ (state.status = "COUNTDOWN" \/ state.previousStatus = "COUNTDOWN") =>
        sounded = <<>>

\* The first tick after a resume finds a second already sounded and stays
\* silent.
C17_Witness ==
  /\ lastOp = "tick"
  /\ lastTick.leftPaused.by = "resume"
  /\ sounded # <<>>
  /\ state.timeRemaining <= 3000
  /\ SelectSeq(emitted, IsCountdownSound) = <<>>

\* C19: a WORK or REST phase of at least 5 s that runs to its natural
\* expiry, paused and resumed any number of times, has sounded 'countdown'
\* exactly once for each of 3, 2 and 1 seconds remaining, in that order.
C19_CountdownComplete ==
  (/\ lastOp = "tick"
   /\ counterpart # <<>>
   /\ lastTick.statusBefore \in {"WORK", "REST"}) =>
     lastTick.sounded = <<3, 2, 1>>

\* A WORK phase expires on a capped tick, all three seconds sounded.
C19_Witness ==
  /\ lastOp = "tick"
  /\ counterpart # <<>>
  /\ lastTick.statusBefore = "WORK"
  /\ lastTick.sounded = <<3, 2, 1>>
  /\ lastTick.delta = MaxDelta
  /\ lastTick.timestamp - lastTick.reference > MaxDelta

\* The phase that follows a phase that has run out.
FollowsPhase(from, to, round, total) ==
  \/ from = "COUNTDOWN" /\ to = "WORK"
  \/ from = "WORK" /\ to = (IF round >= total THEN "COMPLETE" ELSE "REST")
  \/ from = "REST" /\ to = "WORK"

\* C16: a tick takes at most 1000 ms off timeRemaining whatever the gap
\* since the previous frame, ends at most one phase (the next one starts
\* with its full duration), and a phase of duration D ends by expiry only
\* after at least D/1000 ticks.
C16_TickCap ==
  lastOp = "tick" =>
    /\ 0 <= lastTick.delta
    /\ lastTick.delta <= 1000
    /\ lastTick.delta <= lastTick.timestamp - lastTick.reference
    /\ counterpart = <<>> =>
          /\ state.timeRemaining = lastTick.timeBefore - lastTick.delta
          /\ state.status = lastTick.statusBefore
    /\ counterpart # <<>> =>
          /\ lastTick.timeBefore <= 1000
          /\ FollowsPhase(lastTick.statusBefore, state.status,
                          before.round, config.rounds)
          /\ state.status # "COMPLETE" =>
                state.timeRemaining = state.phaseDuration
          /\ lastTick.ticks * 1000 >= lastTick.durationBefore

\* A frame 7 s after the previous one takes 1000 ms off a WORK phase.
C16_Witness ==
  /\ lastOp = "tick"
  /\ lastTick.timestamp - lastTick.reference = 7000
  /\ lastTick.statusBefore = "WORK"
  /\ state.timeRemaining = lastTick.timeBefore - 1000

Completed ==
  /\ state.status = "COMPLETE"
  /\ SelectSeq(runCalls, IsComplete) # <<>>

Running == state.status \in ActiveStates \cup {"PAUSED"}

\* C20 as stated: with every requested frame run, time advancing between
\* frames, every pause followed by resume() or skip() and no reset(), a
\* started timer reaches COMPLETE, onComplete fired. (With no reset() the
\* run reaches COMPLETE only through the end of every phase it enters.)
C20_Original == Running ~> Completed

\* C20: under the same conditions and with pause() taking effect only
\* finitely often, a started timer reaches COMPLETE, onComplete fired, and
\* so every phase it enters ends.
C20_Liveness ==
  <>[](~(lastOp = "pause" /\ accepted)) => (Running ~> Completed)

\* Two rounds run to completion by expiry of the last WORK phase.
C20_Witness ==
  /\ Completed
  /\ lastOp = "tick"
  /\ config.rounds = 2
  /\ Len(phasesEntered) = 4

\* No wake lock promise is pending.
Settled == app.requests = 0 /\ app.releasing = {}

\* C18: once the timer is IDLE or COMPLETE and every wake lock promise has
\* settled, no wake lock is held, isActive() is false and shouldBeActive is
\* false.
C18_WakeLockReleased ==
  (state.status \in {"IDLE", "COMPLETE"} /\ Settled) =>
    /\ ~isActive(app)
    /\ app.held = {}
    /\ ~app.shouldBeActive

\* C21: while the page holds a timer, isPaused is true exactly when that
\* timer's status is PAUSED, after every handler and every frame; so the
\* play/pause button never calls an operation that a running or paused
\* timer rejects.
C21_IsPausedMirrors ==
  /\ app.timer => (app.isPaused <=> state.status = "PAUSED")
  /\ (lastOp \in {"pause", "resume"}
        /\ before.status \in ActiveStates \cup {"PAUSED"}) => accepted
  /\ (lastOp = "pause" /\ app.timer) => before.status # "PAUSED"
  /\ (lastOp = "resume" /\ app.timer) => before.status = "PAUSED"

\* A paused timer was skipped into its next phase: the flag is cleared
\* though no onStateChange was fired.
C21_Witness ==
  /\ app.timer
  /\ lastOp = "skip"
  /\ before.status = "PAUSED"
  /\ state.status \in ActiveStates
  /\ ~app.isPaused
  /\ SelectSeq(emitted, IsStateChange) = <<>>

====
